---- MODULE Spec2Model ----
(***************************************************************************)
(* The RPC bridge of the embed popup: the outbound call with retry         *)
(* (sendData), the single-shot outbound calls of rpc-client.ts, the        *)
(* inbound handlers client.click_button and client.greet with their        *)
(* registration, and the AgentClient component that opens the popup,       *)
(* connects the room and starts sendData.                                  *)
(***************************************************************************)
EXTENDS Integers, Sequences, FiniteSets, TLC

VARIABLES
    roomState,            \* room.state of the livekit Room
    remoteParticipants,   \* room.remoteParticipants, in join (insertion) order
    sd,                   \* the sendData call in progress and what it has done
    rc,                   \* the rpc-client.ts call in progress (sendDomElements / callAgentAction)
    handlers,             \* the room's RPC method name -> handler binding
    dom,                  \* the document: the elements querySelector scans, in document order
    inbound,              \* the inbound RPC invocation last dispatched and its effects
    regLog,               \* the register / unregister operations done on the room, oldest first
    calls,                \* the inbound invocations in flight, by request id
    client,               \* the AgentClient component: its state, its ref, its panel animation
    seqs,                 \* the connect() sequences the popup's effect has started
    leaving               \* a room.disconnect() has been called and has not completed

vars == <<roomState, remoteParticipants, sd, rc, handlers, dom, inbound, regLog, calls,
          client, seqs, leaving>>
outVars == <<roomState, remoteParticipants, sd, rc>>
popVars == <<client, seqs, leaving>>
extVars == <<regLog, calls, popVars>>
inVars == <<handlers, dom, inbound, extVars>>

----------------------------------------------------------------------------
(* Bounds of the model *)

\* longest roster explored
MaxRoster == 2
\* sendData calls started in one behaviour
MaxCalls == 2
\* the counters that observe sendData (resolution attempts, sends) saturate here
MaxObserved == 6
\* register / unregister operations followed in one behaviour of the registry
MaxOps == 4

----------------------------------------------------------------------------
(* The room: connection state and roster *)

RoomStates == {"disconnected", "connecting", "connected", "reconnecting"}

Peers ==
    { [identity |-> "user-1",  isAgent |-> FALSE],
      [identity |-> "agent-1", isAgent |-> TRUE],
      [identity |-> "agent-2", isAgent |-> TRUE] }

Undefined == [tag |-> "undefined"]
Null == [tag |-> "null"]

Min(a, b) == IF a < b THEN a ELSE b

\* a find without the predicate: the first peer, agent or not
ArrayFindAgent_anyPeer(roster) == IF roster = <<>> THEN Undefined ELSE Head(roster)

\* a find that keeps the last element satisfying the predicate
RECURSIVE ArrayFindAgent_last(_)
ArrayFindAgent_last(roster) ==
    IF roster = <<>> THEN Undefined
    ELSE IF roster[Len(roster)].isAgent THEN roster[Len(roster)]
    ELSE ArrayFindAgent_last(SubSeq(roster, 1, Len(roster) - 1))

\* Array.prototype.find: the first element satisfying the predicate, else undefined
RECURSIVE ArrayFindAgent(_)
ArrayFindAgent(roster) ==
    IF roster = <<>> THEN Undefined
    ELSE IF Head(roster).isAgent THEN Head(roster)
    ELSE ArrayFindAgent(Tail(roster))

\* rpc-client.ts findAgent: find(...) || null
findAgent(roster) ==
    IF ArrayFindAgent(roster) = Undefined THEN Null ELSE ArrayFindAgent(roster)

InRoster(p, roster) == \E i \in 1..Len(roster) : roster[i] = p

RemoveAt(s, i) == SubSeq(s, 1, i - 1) \o SubSeq(s, i + 1, Len(s))

----------------------------------------------------------------------------
(* sendData (agent-client.tsx) *)

retryCount == 0
maxRetries == 3
retryDelay == 2000
actualRetryDelay == retryDelay * (retryCount + 1)

SdIdle ==
    [pc |-> "idle", call |-> 0, attempts |-> 0, delay |-> 0, rpcs |-> 0,
     dest |-> "", via |-> "none", outcome |-> "pending", agentSeen |-> FALSE]

\* a sendData call that re-uses the outcome of its first resolution on every retry
sendData_cachedAgent(s, state, roster) ==
    IF state # "connected"
    THEN [s EXCEPT !.pc = "ended", !.via = "notConnected", !.outcome = "returned"]
    ELSE LET agent == IF s.attempts = 0 THEN ArrayFindAgent(roster) ELSE Undefined
             r == [s EXCEPT !.attempts = Min(@ + 1, MaxObserved)]
         IN  IF agent = Undefined
             THEN IF retryCount < maxRetries
                  THEN [r EXCEPT !.pc = "WAITING", !.delay = actualRetryDelay]
                  ELSE [r EXCEPT !.pc = "ended", !.via = "agentNotFound",
                                 !.outcome = "returned"]
             ELSE [r EXCEPT !.pc = "SENDING", !.dest = agent.identity,
                            !.rpcs = Min(@ + 1, MaxObserved)]

\* a sendData without the room.state check of its first line
sendData_noStateCheck(s, state, roster) ==
    LET agent == ArrayFindAgent(roster)
        r == [s EXCEPT !.attempts = Min(@ + 1, MaxObserved)]
    IN  IF agent = Undefined
        THEN IF retryCount < maxRetries
             THEN [r EXCEPT !.pc = "WAITING", !.delay = actualRetryDelay]
             ELSE [r EXCEPT !.pc = "ended", !.via = "agentNotFound",
                            !.outcome = "returned"]
        ELSE [r EXCEPT !.pc = "SENDING", !.dest = agent.identity,
                       !.rpcs = Min(@ + 1, MaxObserved)]

\* One entry of sendData, from its first line to its first await or its return:
\* s is the call so far, state and roster are what the room shows at that moment.
sendData(s, state, roster) ==
    IF state # "connected"
    THEN [s EXCEPT !.pc = "ended", !.via = "notConnected", !.outcome = "returned"]
    ELSE LET agent == ArrayFindAgent(roster)
             r == [s EXCEPT !.attempts = Min(@ + 1, MaxObserved)]
         IN  IF agent = Undefined
             THEN IF retryCount < maxRetries
                  THEN [r EXCEPT !.pc = "WAITING", !.delay = actualRetryDelay]
                  ELSE [r EXCEPT !.pc = "ended", !.via = "agentNotFound",
                                 !.outcome = "returned"]
             ELSE [r EXCEPT !.pc = "SENDING", !.dest = agent.identity,
                            !.rpcs = Min(@ + 1, MaxObserved)]

\* performRpc resolved: the response is logged and sendData returns
sendDataResponse(s) ==
    [s EXCEPT !.pc = "ended", !.via = "response", !.outcome = "returned"]

\* a catch block that starts the retry wait again
sendDataCatch_retry(s) ==
    [s EXCEPT !.pc = "WAITING", !.delay = actualRetryDelay]

\* performRpc rejected: the catch block logs the error and sendData returns
sendDataCatch(s) ==
    [s EXCEPT !.pc = "ended", !.via = "transportError", !.outcome = "returned"]

\* connect() calls sendData(room) once the room has connected
SendDataCall ==
    /\ sd.pc \in {"idle", "ended"}
    /\ sd.call < MaxCalls
    /\ sd' = sendData([SdIdle EXCEPT !.call = sd.call + 1,
                                     !.agentSeen = (findAgent(remoteParticipants) # Null)],
                      roomState, remoteParticipants)
    /\ UNCHANGED <<roomState, remoteParticipants, rc, inVars>>

\* the backoff timer fires and the continuation re-enters sendData
SendDataTimer ==
    /\ sd.pc = "WAITING"
    /\ sd' = sendData(sd, roomState, remoteParticipants)
    /\ UNCHANGED <<roomState, remoteParticipants, rc, inVars>>

SendDataRpcResolved ==
    /\ sd.pc = "SENDING"
    /\ sd' = sendDataResponse(sd)
    /\ UNCHANGED <<roomState, remoteParticipants, rc, inVars>>

SendDataRpcRejected ==
    /\ sd.pc = "SENDING"
    /\ sd' = sendDataCatch(sd)
    /\ UNCHANGED <<roomState, remoteParticipants, rc, inVars>>

----------------------------------------------------------------------------
(* rpc-client.ts: sendDomElements and callAgentAction *)

RcIdle ==
    [pc |-> "idle", method |-> "", rpcs |-> 0, dest |-> "",
     via |-> "none", outcome |-> "pending"]

\* the body shared by both functions: resolve once, throw or send
rpcClientCall(method, roster) ==
    LET agent == findAgent(roster)
    IN  IF agent = Null
        THEN [RcIdle EXCEPT !.pc = "ended", !.method = method,
                            !.via = "agentNotFound", !.outcome = "threw"]
        ELSE [RcIdle EXCEPT !.pc = "SENDING", !.method = method,
                            !.dest = agent.identity, !.rpcs = 1]

sendDomElements(roster) == rpcClientCall("dom_elements", roster)

callAgentAction(roster) == rpcClientCall("agent.action", roster)

SendDomElementsCall ==
    /\ rc.pc \in {"idle", "ended"}
    /\ rc' = sendDomElements(remoteParticipants)
    /\ UNCHANGED <<roomState, remoteParticipants, sd, inVars>>

CallAgentActionCall ==
    /\ rc.pc \in {"idle", "ended"}
    /\ rc' = callAgentAction(remoteParticipants)
    /\ UNCHANGED <<roomState, remoteParticipants, sd, inVars>>

\* the promise performRpc returned is the function's result: it resolves ...
RpcClientResolved ==
    /\ rc.pc = "SENDING"
    /\ rc' = [rc EXCEPT !.pc = "ended", !.via = "response", !.outcome = "returned"]
    /\ UNCHANGED <<roomState, remoteParticipants, sd, inVars>>

\* ... or rejects, and the rejection is the caller's
RpcClientRejected ==
    /\ rc.pc = "SENDING"
    /\ rc' = [rc EXCEPT !.pc = "ended", !.via = "transportError", !.outcome = "threw"]
    /\ UNCHANGED <<roomState, remoteParticipants, sd, inVars>>

----------------------------------------------------------------------------
(* The room's own behaviour: state changes and roster changes *)

SawAgent(s, p) ==
    IF s.pc \in {"WAITING", "SENDING"} /\ p.isAgent
    THEN [s EXCEPT !.agentSeen = TRUE] ELSE s

RoomConnecting ==
    /\ roomState = "disconnected"
    /\ roomState' = "connecting"
    /\ UNCHANGED <<remoteParticipants, sd, rc, inVars>>

RoomConnected ==
    /\ roomState \in {"connecting", "reconnecting"}
    /\ roomState' = "connected"
    /\ UNCHANGED <<remoteParticipants, sd, rc, inVars>>

RoomReconnecting ==
    /\ roomState = "connected"
    /\ roomState' = "reconnecting"
    /\ UNCHANGED <<remoteParticipants, sd, rc, inVars>>

RoomDisconnected ==
    /\ roomState # "disconnected"
    /\ roomState' = "disconnected"
    /\ remoteParticipants' = <<>>
    /\ UNCHANGED <<sd, rc, inVars>>

ParticipantJoined ==
    /\ roomState = "connected"
    /\ Len(remoteParticipants) < MaxRoster
    /\ \E p \in Peers :
          /\ ~InRoster(p, remoteParticipants)
          /\ remoteParticipants' = Append(remoteParticipants, p)
          /\ sd' = SawAgent(sd, p)
    /\ UNCHANGED <<roomState, rc, inVars>>

ParticipantLeft ==
    /\ \E i \in 1..Len(remoteParticipants) :
          remoteParticipants' = RemoveAt(remoteParticipants, i)
    /\ UNCHANGED <<roomState, sd, rc, inVars>>

----------------------------------------------------------------------------
(* JavaScript values and JSON.parse, as far as the handlers use them.        *)
(* A text is a sequence of one-character strings.  A value is a record:      *)
(*   [k |-> "undefined"], [k |-> "null"], [k |-> "bool", b |-> ...],         *)
(*   [k |-> "num", n |-> ...], [k |-> "str", s |-> text],                    *)
(*   [k |-> "arr", a |-> values], [k |-> "obj", f |-> <<[key, val], ...>>]   *)
(* The JSON grammar covered: null, true, false, unsigned integers, strings   *)
(* with the escapes \" and \\, arrays, objects, blanks between tokens.       *)

JsUndefined == [k |-> "undefined"]
JsNull == [k |-> "null"]
JsBool(b) == [k |-> "bool", b |-> b]
JsNum(n) == [k |-> "num", n |-> n]
JsStr(t) == [k |-> "str", s |-> t]
JsArr(a) == [k |-> "arr", a |-> a]
JsObj(f) == [k |-> "obj", f |-> f]

Digits == {"0", "1", "2", "3", "4", "5", "6", "7", "8", "9"}

DigitVal(c) ==
    CASE c = "0" -> 0 [] c = "1" -> 1 [] c = "2" -> 2 [] c = "3" -> 3 [] c = "4" -> 4
      [] c = "5" -> 5 [] c = "6" -> 6 [] c = "7" -> 7 [] c = "8" -> 8 [] c = "9" -> 9

DigitChar(d) ==
    CASE d = 0 -> "0" [] d = 1 -> "1" [] d = 2 -> "2" [] d = 3 -> "3" [] d = 4 -> "4"
      [] d = 5 -> "5" [] d = 6 -> "6" [] d = 7 -> "7" [] d = 8 -> "8" [] d = 9 -> "9"

Drop(t, n) == SubSeq(t, n + 1, Len(t))

StartsWith(t, p) == Len(t) >= Len(p) /\ SubSeq(t, 1, Len(p)) = p

RECURSIVE SkipWs(_)
SkipWs(t) == IF t # <<>> /\ Head(t) = " " THEN SkipWs(Tail(t)) ELSE t

ParseFail == [ok |-> FALSE]
ParseOk(v, rest) == [ok |-> TRUE, v |-> v, rest |-> rest]

\* the characters of a string literal after its opening quote
RECURSIVE ParseStringBody(_, _)
ParseStringBody(t, acc) ==
    IF t = <<>> THEN ParseFail
    ELSE IF Head(t) = "\"" THEN ParseOk(acc, Tail(t))
    ELSE IF Head(t) = "\\"
         THEN IF Len(t) >= 2 /\ t[2] \in {"\"", "\\"}
              THEN ParseStringBody(Drop(t, 2), Append(acc, t[2]))
              ELSE ParseFail
    ELSE ParseStringBody(Tail(t), Append(acc, Head(t)))

RECURSIVE ParseDigits(_, _)
ParseDigits(t, n) ==
    IF t # <<>> /\ Head(t) \in Digits
    THEN ParseDigits(Tail(t), 10 * n + DigitVal(Head(t)))
    ELSE ParseOk(JsNum(n), t)

\* a number: 0, or a digit 1-9 followed by digits
ParseNumber(t) ==
    IF Head(t) = "0" THEN ParseOk(JsNum(0), Tail(t)) ELSE ParseDigits(t, 0)

RECURSIVE ParseValue(_)
RECURSIVE ParseMembers(_, _)
RECURSIVE ParseElements(_, _)

\* after a member's value: "," and the next member, or "}"
MembersNext(r, f) ==
    IF r = <<>> THEN ParseFail
    ELSE IF Head(r) = "," THEN ParseMembers(Tail(r), f)
    ELSE IF Head(r) = "}" THEN ParseOk(JsObj(f), Tail(r))
    ELSE ParseFail

MembersAfterValue(key, val, acc) ==
    IF ~val.ok THEN ParseFail
    ELSE MembersNext(SkipWs(val.rest), Append(acc, [key |-> key, val |-> val.v]))

MembersColon(key, c, acc) ==
    IF c = <<>> \/ Head(c) # ":" THEN ParseFail
    ELSE MembersAfterValue(key, ParseValue(Tail(c)), acc)

MembersAfterKey(key, acc) ==
    IF ~key.ok THEN ParseFail ELSE MembersColon(key.v, SkipWs(key.rest), acc)

MembersAt(t, acc) ==
    IF t = <<>> \/ Head(t) # "\"" THEN ParseFail
    ELSE MembersAfterKey(ParseStringBody(Tail(t), <<>>), acc)

\* the members of an object after "{" or ",": "key" : value, then "," or "}"
ParseMembers(t, acc) == MembersAt(SkipWs(t), acc)

\* after an element: "," and the next element, or "]"
ElementsNext(r, a) ==
    IF r = <<>> THEN ParseFail
    ELSE IF Head(r) = "," THEN ParseElements(Tail(r), a)
    ELSE IF Head(r) = "]" THEN ParseOk(JsArr(a), Tail(r))
    ELSE ParseFail

ElementsAfterValue(val, acc) ==
    IF ~val.ok THEN ParseFail
    ELSE ElementsNext(SkipWs(val.rest), Append(acc, val.v))

\* the elements of an array after "[" or ","
ParseElements(t, acc) == ElementsAfterValue(ParseValue(t), acc)

StringValue(str) == IF str.ok THEN ParseOk(JsStr(str.v), str.rest) ELSE ParseFail

\* after "{": an empty object or members
ObjectAt(b) ==
    IF b # <<>> /\ Head(b) = "}" THEN ParseOk(JsObj(<<>>), Tail(b))
    ELSE ParseMembers(b, <<>>)

\* after "[": an empty array or elements
ArrayAt(b) ==
    IF b # <<>> /\ Head(b) = "]" THEN ParseOk(JsArr(<<>>), Tail(b))
    ELSE ParseElements(b, <<>>)

ValueAt(t) ==
    IF t = <<>> THEN ParseFail
    ELSE IF StartsWith(t, <<"n", "u", "l", "l">>) THEN ParseOk(JsNull, Drop(t, 4))
    ELSE IF StartsWith(t, <<"t", "r", "u", "e">>) THEN ParseOk(JsBool(TRUE), Drop(t, 4))
    ELSE IF StartsWith(t, <<"f", "a", "l", "s", "e">>) THEN ParseOk(JsBool(FALSE), Drop(t, 5))
    ELSE IF Head(t) = "\"" THEN StringValue(ParseStringBody(Tail(t), <<>>))
    ELSE IF Head(t) \in Digits THEN ParseNumber(t)
    ELSE IF Head(t) = "{" THEN ObjectAt(SkipWs(Tail(t)))
    ELSE IF Head(t) = "[" THEN ArrayAt(SkipWs(Tail(t)))
    ELSE ParseFail

\* a value, blanks before it skipped
ParseValue(t) == ValueAt(SkipWs(t))

WholeText(r) ==
    IF r.ok /\ SkipWs(r.rest) = <<>>
    THEN [threw |-> FALSE, v |-> r.v]
    ELSE [threw |-> TRUE, message |-> "SyntaxError: JSON.parse"]

\* JSON.parse: the value of the whole text, or a SyntaxError
JSONparse(text) == WholeText(ParseValue(text))

\* the value of the last member named key, undefined when there is none
RECURSIVE LookupMember(_, _)
LookupMember(f, key) ==
    IF f = <<>> THEN JsUndefined
    ELSE IF f[Len(f)].key = key THEN f[Len(f)].val
    ELSE LookupMember(SubSeq(f, 1, Len(f) - 1), key)

JsIdKey == <<"j", "s", "I", "d">>

\* payload.jsId: a TypeError on null and undefined, the member of an object,
\* undefined on every other value (no primitive and no array has a jsId)
GetJsId(v) ==
    IF v.k \in {"null", "undefined"}
    THEN [threw |-> TRUE, message |-> "TypeError: cannot read properties of null"]
    ELSE [threw |-> FALSE,
          v |-> IF v.k = "obj" THEN LookupMember(v.f, JsIdKey) ELSE JsUndefined]

\* !!v
Truthy(v) ==
    CASE v.k \in {"undefined", "null"} -> FALSE
      [] v.k = "bool" -> v.b
      [] v.k = "num" -> v.n # 0
      [] v.k = "str" -> v.s # <<>>
      [] OTHER -> TRUE

RECURSIVE NumToText(_)
NumToText(n) ==
    IF n < 10 THEN <<DigitChar(n)>>
    ELSE Append(NumToText(n \div 10), DigitChar(n % 10))

RECURSIVE ToText(_)
RECURSIVE JoinText(_)

\* Array.prototype.join(","): null and undefined elements give the empty text
JoinText(a) ==
    IF a = <<>> THEN <<>>
    ELSE LET h == IF Head(a).k \in {"null", "undefined"} THEN <<>> ELSE ToText(Head(a))
         IN  IF Len(a) = 1 THEN h ELSE h \o <<",">> \o JoinText(Tail(a))

\* `${v}`: the string conversion a template literal applies
ToText(v) ==
    CASE v.k = "str" -> v.s
      [] v.k = "num" -> NumToText(v.n)
      [] v.k = "bool" -> IF v.b THEN <<"t", "r", "u", "e">> ELSE <<"f", "a", "l", "s", "e">>
      [] v.k = "null" -> <<"n", "u", "l", "l">>
      [] v.k = "undefined" -> <<"u", "n", "d", "e", "f", "i", "n", "e", "d">>
      [] v.k = "arr" -> JoinText(v.a)
      [] v.k = "obj" -> <<"[", "o", "b", "j", "e", "c", "t", " ",
                          "O", "b", "j", "e", "c", "t", "]">>

----------------------------------------------------------------------------
(* The document and document.querySelector.                                  *)
(* An element is [jsId |-> text of its data-js-id attribute, html |-> whether *)
(* it is an HTMLElement, i.e. has a click method].  The selector grammar      *)
(* covered: a comma-separated list of compounds of attribute selectors        *)
(* [name="value"], no combinators and no escapes.                             *)

DataJsId == <<"d", "a", "t", "a", "-", "j", "s", "-", "i", "d">>

\* `[data-js-id="${jsId}"]`
SelectorFor(jsId) ==
    <<"[">> \o DataJsId \o <<"=", "\"">> \o ToText(jsId) \o <<"\"", "]">>

IdentChars ==
    {"a", "b", "c", "d", "e", "i", "j", "o", "s", "t", "x", "-"} \cup Digits

\* the longest run of characters of the set at the head of the text
RECURSIVE RunOf(_, _, _)
RunOf(t, set, acc) ==
    IF t # <<>> /\ Head(t) \in set THEN RunOf(Tail(t), set, Append(acc, Head(t)))
    ELSE [v |-> acc, rest |-> t]

\* the characters of a quoted value up to its closing quote
RECURSIVE RunToQuote(_, _)
RunToQuote(t, acc) ==
    IF t = <<>> THEN ParseFail
    ELSE IF Head(t) = "\"" THEN ParseOk(acc, Tail(t))
    ELSE RunToQuote(Tail(t), Append(acc, Head(t)))

AttributeEnd(name, val) ==
    IF ~val.ok THEN ParseFail
    ELSE IF val.rest = <<>> \/ Head(val.rest) # "]" THEN ParseFail
    ELSE ParseOk([name |-> name, value |-> val.v], Tail(val.rest))

AttributeValue(name) ==
    IF name.v = <<>> \/ Head(name.v) \in Digits THEN ParseFail
    ELSE IF ~StartsWith(name.rest, <<"=", "\"">>) THEN ParseFail
    ELSE AttributeEnd(name.v, RunToQuote(Drop(name.rest, 2), <<>>))

\* [name="value"], the text starting at "["
ParseAttribute(t) == AttributeValue(RunOf(Tail(t), IdentChars, <<>>))

RECURSIVE ParseCompound(_, _)

CompoundNext(a, acc) ==
    IF ~a.ok THEN ParseFail
    ELSE IF a.rest # <<>> /\ Head(a.rest) = "[" THEN ParseCompound(a.rest, Append(acc, a.v))
    ELSE ParseOk(Append(acc, a.v), a.rest)

\* one or more attribute selectors in a row
ParseCompound(t, acc) == CompoundNext(ParseAttribute(t), acc)

RECURSIVE ParseSelectorList(_, _)

ListNext(r, list) ==
    IF r = <<>> THEN ParseOk(list, r)
    ELSE IF Head(r) = "," THEN ParseSelectorList(Tail(r), list)
    ELSE ParseFail

ListAfterCompound(c, acc) ==
    IF ~c.ok THEN ParseFail ELSE ListNext(SkipWs(c.rest), Append(acc, c.v))

ListAt(t, acc) ==
    IF t = <<>> \/ Head(t) # "[" THEN ParseFail
    ELSE ListAfterCompound(ParseCompound(t, <<>>), acc)

\* compounds separated by commas
ParseSelectorList(t, acc) == ListAt(SkipWs(t), acc)

\* an element matches a compound when it matches each of its attribute selectors
MatchesCompound(el, compound) ==
    \A i \in 1..Len(compound) :
        compound[i].name = DataJsId /\ compound[i].value = el.jsId

MatchesList(el, list) == \E i \in 1..Len(list) : MatchesCompound(el, list[i])

FirstOf(hits) == IF hits = {} THEN 0 ELSE CHOOSE i \in hits : \A j \in hits : i <= j

QueryResult(list, d) ==
    IF ~list.ok THEN [threw |-> TRUE, message |-> "SyntaxError: not a valid selector"]
    ELSE [threw |-> FALSE, el |-> FirstOf({i \in 1..Len(d) : MatchesList(d[i], list.v)})]

\* document.querySelector: the index of the first element, in document order, that
\* matches the selector list, 0 for null; an invalid selector throws a SyntaxError
querySelector(selector, d) == QueryResult(ParseSelectorList(selector, <<>>), d)

----------------------------------------------------------------------------
(* The inbound handlers *)

ReplyEvent(text) == [e |-> "reply", text |-> text]
ClickEvent(i) == [e |-> "click", idx |-> i]

\* JSON.stringify of a reply envelope
JSONstringify(env) ==
    IF env.ok THEN "{\"ok\":true}"
    ELSE "{\"ok\":false,\"error\":\"" \o env.error \o "\"}"

Success == [ok |-> TRUE]
Failure(message) == [ok |-> FALSE, error |-> message]

\* the handler's result: its effects in order, whether its body raised (and the
\* error's message), and whether the exception left the handler
Returned(events, text) ==
    [escaped |-> FALSE, raised |-> FALSE, message |-> "",
     events |-> Append(events, ReplyEvent(text))]

Threw(message) == [threw |-> TRUE, message |-> message, events |-> <<>>]
Replies(events, env) == [threw |-> FALSE, events |-> events, reply |-> JSONstringify(env)]

\* el.click() and the success reply; an element that is no HTMLElement has no click
clickButtonElement(el, d) ==
    IF ~d[el].html THEN Threw("TypeError: el.click is not a function")
    ELSE Replies(<<ClickEvent(el)>>, Success)

\* the null check on what querySelector returned
clickButtonFound(found, d) ==
    IF found.threw THEN Threw(found.message)
    ELSE IF found.el = 0 THEN Replies(<<>>, Failure("Element not found"))
    ELSE clickButtonElement(found.el, d)

\* the jsId check, then the selector and the query
clickButtonJsId(jsId, d) ==
    IF jsId.threw THEN Threw(jsId.message)
    ELSE IF ~Truthy(jsId.v) THEN Replies(<<>>, Failure("Missing jsId"))
    ELSE clickButtonFound(querySelector(SelectorFor(jsId.v), d), d)

clickButtonParsed(parsed, d) ==
    IF parsed.threw THEN Threw(parsed.message)
    ELSE clickButtonJsId(GetJsId(parsed.v), d)

\* the try block of client.click_button: what it did, and how it ended
\* (threw, with the error's message, or returned a reply text)
clickButtonTry(data, d) ==
    clickButtonParsed(JSONparse(IF data.present THEN data.text ELSE <<"{", "}">>), d)

\* a catch block that lets the error go on to the transport
clickButtonCatch_rethrow(message, events) ==
    [escaped |-> TRUE, raised |-> TRUE, message |-> message, events |-> events]

\* the catch block of client.click_button: the error's message in a failure envelope
clickButtonCatch(message, events) ==
    [escaped |-> FALSE, raised |-> TRUE, message |-> message,
     events |-> Append(events, ReplyEvent(JSONstringify(Failure(message))))]

clickButtonEnd(r) ==
    IF r.threw THEN clickButtonCatch(r.message, r.events)
    ELSE Returned(r.events, r.reply)

\* the client.click_button handler
clickButton(data, d) == clickButtonEnd(clickButtonTry(data, d))

\* a client.greet that answers the caller of the invocation dispatched last
greetBridge_lastCaller(data) ==
    Returned(<<>>, "Hello " \o (IF inbound.pc = "none" THEN data.callerIdentity
                                 ELSE inbound.data.callerIdentity) \o "!")

\* the client.greet handler registerClientRpcHandlers binds
greetBridge(data) == Returned(<<>>, "Hello " \o data.callerIdentity \o "!")

\* the client.greet handler the popup's effect binds
greetPopup(data) == Returned(<<>>, "Hello, " \o data.callerIdentity \o "!")

Methods == {"client.click_button", "client.greet"}

\* a method name the embedding page binds on the same room, outside the bridge
OtherMethod == "app.method"
RegistryNames == Methods \cup {OtherMethod}

\* room.registerRpcMethod refuses a name that has a handler: it throws
\* ("RPC handler already registered for method ...") and the binding stays
registerRpcMethodThrows(h, method) == h[method] # "none"

registerRpcMethod(h, method, handler) ==
    IF registerRpcMethodThrows(h, method) THEN h ELSE [h EXCEPT ![method] = handler]

\* room.unregisterRpcMethod: the binding of the name is removed, if there is one
unregisterRpcMethod(h, method) == [h EXCEPT ![method] = "none"]

\* the second registration runs only if the first returned
registerClientRpcHandlers(h) ==
    IF registerRpcMethodThrows(h, "client.click_button") THEN h
    ELSE registerRpcMethod(registerRpcMethod(h, "client.click_button", "clickButton"),
                           "client.greet", "greetBridge")

registerClientRpcHandlersThrows(h) ==
    \/ registerRpcMethodThrows(h, "client.click_button")
    \/ registerRpcMethodThrows(h, "client.greet")

\* unregisterClientRpcHandlers with the click_button line left out
unregisterClientRpcHandlers_greetOnly(h) == unregisterRpcMethod(h, "client.greet")

unregisterClientRpcHandlers(h) ==
    unregisterRpcMethod(unregisterRpcMethod(h, "client.greet"), "client.click_button")

\* the popup's effect re-arms client.greet: unregister, then register
rearmGreet(h) ==
    registerRpcMethod(unregisterRpcMethod(h, "client.greet"), "client.greet", "greetPopup")

\* what the bound handler does with an invocation
Invoke(handler, data, d) ==
    CASE handler = "clickButton" -> clickButton(data, d)
      [] handler = "greetBridge" -> greetBridge(data)
      [] handler = "greetPopup" -> greetPopup(data)

----------------------------------------------------------------------------
(* Inputs of the inbound side *)

Callers == {"agent-1", "agent-2"}

\* JSON text of a string: quotes and backslashes escaped
RECURSIVE EscapeText(_)
EscapeText(t) ==
    IF t = <<>> THEN <<>>
    ELSE (IF Head(t) \in {"\"", "\\"} THEN <<"\\", Head(t)>> ELSE <<Head(t)>>)
         \o EscapeText(Tail(t))

StrText(t) == <<"\"">> \o EscapeText(t) \o <<"\"">>

\* {"jsId":<value text>}
JsIdPayload(valueText) == <<"{">> \o StrText(JsIdKey) \o <<":">> \o valueText \o <<"}">>

\* a"]  : closes the attribute value early
QuoteBracketId == <<"a", "\"", "]">>
\* a"b  : an identifier with a quote in it
QuotedId == <<"a", "\"", "b">>
\* c"],[data-js-id="b  : closes the selector and starts a second one
InjectedId == <<"c", "\"", "]", ",", "[">> \o DataJsId \o <<"=", "\"", "b">>

JsIdTexts ==
    { <<"a">>, <<"b">>, <<"c">>, QuoteBracketId, QuotedId, InjectedId }

PayloadTexts ==
    { <<>>,                                   \* the empty string
      <<"{">>,                                \* malformed
      <<"n", "u", "l", "l">>,
      <<"5">>,
      <<"{", "}">>,
      <<"[", "]">>,
      StrText(<<"a">>),
      <<"{">> \o StrText(<<"o">>) \o <<":">> \o StrText(<<"a">>) \o <<"}">>,
      JsIdPayload(StrText(<<>>)),
      JsIdPayload(<<"0">>),
      JsIdPayload(<<"5">>),
      JsIdPayload(<<"n", "u", "l", "l">>),
      JsIdPayload(<<"f", "a", "l", "s", "e">>),
      JsIdPayload(<<"t", "r", "u", "e">>),
      JsIdPayload(<<"{", "}">>),
      JsIdPayload(<<"[", "]">>),
      <<"{", " ">> \o StrText(JsIdKey) \o <<" ", ":", " ">> \o StrText(<<"a">>) \o <<" ", "}">>,
      <<"{">> \o StrText(JsIdKey) \o <<":">> \o StrText(<<"a">>) \o <<",">>
              \o StrText(JsIdKey) \o <<":">> \o StrText(<<"b">>) \o <<"}">> }
    \cup { JsIdPayload(StrText(t)) : t \in JsIdTexts }

Payloads ==
    { [present |-> FALSE, text |-> <<>>] } \cup
    { [present |-> TRUE, text |-> t] : t \in PayloadTexts }

HtmlEl(id) == [jsId |-> id, html |-> TRUE]
SvgEl(id) == [jsId |-> id, html |-> FALSE]

Documents ==
    { <<>>,
      <<HtmlEl(<<"a">>), HtmlEl(<<"b">>)>>,
      <<HtmlEl(<<"b">>), HtmlEl(<<"a">>), HtmlEl(<<"a">>)>>,
      <<SvgEl(<<"a">>), HtmlEl(<<"b">>)>>,
      <<HtmlEl(QuotedId), HtmlEl(<<"b">>), HtmlEl(<<"5">>)>>,
      <<HtmlEl(<<"t", "r", "u", "e">>), HtmlEl(<<"a">>)>> }

----------------------------------------------------------------------------
(* Inbound actions *)

RegisterClientRpcHandlers ==
    /\ handlers' = registerClientRpcHandlers(handlers)
    /\ UNCHANGED <<dom, inbound, outVars, extVars>>

UnregisterClientRpcHandlers ==
    /\ handlers' = unregisterClientRpcHandlers(handlers)
    /\ UNCHANGED <<dom, inbound, outVars, extVars>>

RearmGreet ==
    /\ handlers' = rearmGreet(handlers)
    /\ UNCHANGED <<dom, inbound, outVars, extVars>>

\* the same three operations, with the registry's log kept
LogEntry(op, threw) == [op |-> op, threw |-> threw]

RegisterLogged ==
    /\ Len(regLog) < MaxOps
    /\ handlers' = registerClientRpcHandlers(handlers)
    /\ regLog' = Append(regLog, LogEntry("registerClientRpcHandlers",
                                         registerClientRpcHandlersThrows(handlers)))
    /\ UNCHANGED <<dom, inbound, outVars, calls, popVars>>

UnregisterLogged ==
    /\ Len(regLog) < MaxOps
    /\ handlers' = unregisterClientRpcHandlers(handlers)
    /\ regLog' = Append(regLog, LogEntry("unregisterClientRpcHandlers", FALSE))
    /\ UNCHANGED <<dom, inbound, outVars, calls, popVars>>

RearmLogged ==
    /\ Len(regLog) < MaxOps
    /\ handlers' = rearmGreet(handlers)
    /\ regLog' = Append(regLog, LogEntry("rearmGreet", FALSE))
    /\ UNCHANGED <<dom, inbound, outVars, calls, popVars>>

\* the embedding page binds its own method, once
OtherRegistered ==
    /\ Len(regLog) < MaxOps
    /\ ~registerRpcMethodThrows(handlers, OtherMethod)
    /\ handlers' = registerRpcMethod(handlers, OtherMethod, "appHandler")
    /\ regLog' = Append(regLog, LogEntry("other", FALSE))
    /\ UNCHANGED <<dom, inbound, outVars, calls, popVars>>

\* the page renders something else
DomChanged ==
    /\ \E d \in Documents : d # dom /\ dom' = d
    /\ UNCHANGED <<handlers, inbound, outVars, extVars>>

\* the record of an invocation: what was called and what the handler did
Dispatched(method, handler, data, d, r) ==
    [pc |-> IF r.escaped THEN "escaped" ELSE "replied",
     method |-> method, handler |-> handler, data |-> data, dom |-> d,
     raised |-> r.raised, message |-> r.message, events |-> r.events]

Dispatch(method, handler, data, d) ==
    Dispatched(method, handler, data, d, Invoke(handler, data, d))

\* the transport delivers an invocation of a bound method; the handler has no
\* await, so it runs to its reply in one step
InboundCall ==
    /\ \E method \in Methods, caller \in Callers, payload \in Payloads :
          /\ handlers[method] # "none"
          /\ inbound' = Dispatch(method, handlers[method],
                                 [callerIdentity |-> caller, present |-> payload.present,
                                  text |-> payload.text], dom)
    /\ UNCHANGED <<handlers, dom, outVars, extVars>>

----------------------------------------------------------------------------
(* Inbound invocations in flight: the transport calls the handler, an async *)
(* function without an await, which runs to its return value at once; the  *)
(* transport sends the response when the returned promise has settled, and *)
(* other invocations may be delivered in between.                          *)

\* the two invocations followed, in the order they arrive
RequestIds == {1, 2}

NotInFlight == [stage |-> "free"]
Running(inv) == [stage |-> "running", inv |-> inv]
Answered(c) == [c EXCEPT !.stage = "answered"]

\* the payloads of the invocations in flight: a jsId and an object without one
ConcurrentPayloads ==
    { [present |-> TRUE, text |-> JsIdPayload(StrText(<<"a">>))],
      [present |-> TRUE, text |-> <<"{", "}">>] }

InboundInvoked ==
    /\ \E id \in RequestIds, method \in Methods, caller \in Callers,
          payload \in ConcurrentPayloads :
          /\ calls[id].stage = "free"
          /\ \A other \in RequestIds : other < id => calls[other].stage # "free"
          /\ handlers[method] # "none"
          /\ inbound' = Dispatch(method, handlers[method],
                                 [callerIdentity |-> caller, present |-> payload.present,
                                  text |-> payload.text], dom)
          /\ calls' = [calls EXCEPT ![id] = Running(inbound')]
    /\ UNCHANGED <<handlers, dom, outVars, regLog, popVars>>

InboundAnswered ==
    /\ \E id \in RequestIds :
          /\ calls[id].stage = "running"
          /\ calls' = [calls EXCEPT ![id] = Answered(calls[id])]
    /\ UNCHANGED <<handlers, dom, inbound, outVars, regLog, popVars>>

----------------------------------------------------------------------------
(* The AgentClient component (agent-client.tsx 61-215): the popup, its      *)
(* panel animation, the effect that connects, and the room under it.        *)

\* the connect() sequences followed, in the order the effect starts them
SeqIds == {1, 2}

\* the component after its first render: closed, no error, connection details
\* not fetched yet, the effects still to run
ClientMounted ==
    [popupOpen |-> FALSE, isAnimating |-> FALSE, error |-> "null",
     connectionDetails |-> FALSE, animation |-> "idle", effectDue |-> TRUE]

NoSeq == [pc |-> "none"]

\* connect() up to its first await: both promises of Promise.all are pending
SeqStarted(state, c) ==
    [pc |-> "joining", mic |-> "pending", link |-> "fetching",
     seen |-> [state |-> state, popupOpen |-> c.popupOpen,
               connectionDetails |-> c.connectionDetails]]

handlePanelAnimationStart(c) == [c EXCEPT !.isAnimating = TRUE]

\* a render that commits popupOpen: when the value changed, the animate prop of
\* the panel changes, motion starts the animation (onAnimationStart) and the
\* effect that depends on popupOpen is due
Rendered(c, open) ==
    IF open = c.popupOpen THEN c
    ELSE handlePanelAnimationStart([c EXCEPT !.popupOpen = open,
                                             !.animation = "running",
                                             !.effectDue = TRUE])

handleTogglePopup(c) ==
    IF c.isAnimating THEN c
    ELSE Rendered([c EXCEPT !.error = "null"], ~c.popupOpen)

\* the ref is cleared; room.disconnect() is called for a closed popup whose room
\* is not disconnected
handlePanelAnimationComplete(c) == [c EXCEPT !.animation = "idle", !.isAnimating = FALSE]

CallsDisconnect(c, state) == ~c.popupOpen /\ state # "disconnected"

\* the RoomEvent.Disconnected listener: setPopupOpen(false); refreshConnectionDetails()
onDisconnected(c) == Rendered(c, FALSE)

\* the catch block of connect(): the rejections are Error objects
connectCatch(c) == [c EXCEPT !.error = "connecting"]

\* Promise.any in the place of Promise.all: the sequence goes on when one part is done
Settled_any(q) ==
    IF q.pc # "joining" THEN q
    ELSE IF q.mic = "ok" \/ q.link = "ok" THEN [q EXCEPT !.pc = "delay"]
    ELSE IF q.mic = "failed" \/ q.link = "failed" THEN [q EXCEPT !.pc = "failed"]
    ELSE q

\* Promise.all after one of its two promises settled: rejected by the first
\* rejection, fulfilled when both are fulfilled
Settled(q) ==
    IF q.pc # "joining" THEN q
    ELSE IF q.mic = "failed" \/ q.link = "failed" THEN [q EXCEPT !.pc = "failed"]
    ELSE IF q.mic = "ok" /\ q.link = "ok" THEN [q EXCEPT !.pc = "delay"]
    ELSE q

\* the sequences whose room.connect is pending get its outcome
ConnectSettled(qs, outcome) ==
    [id \in SeqIds |->
        IF qs[id].pc # "none" /\ qs[id].link = "connecting"
        THEN Settled([qs[id] EXCEPT !.link = outcome]) ELSE qs[id]]

\* some sequence was rejected in the step and ran its catch block
Caught(old, new) == \E id \in SeqIds : old[id].pc = "joining" /\ new[id].pc = "failed"

AfterCatch(c, old, new) == IF Caught(old, new) THEN connectCatch(c) ELSE c

restVars == <<rc, dom, inbound, regLog, calls>>

\* a click on the trigger
TogglePopup ==
    /\ client' = handleTogglePopup(client)
    /\ UNCHANGED <<seqs, leaving, outVars, handlers, restVars>>

\* the panel's animation ends
PanelAnimationComplete ==
    /\ client.animation = "running"
    /\ client' = handlePanelAnimationComplete(client)
    /\ leaving' = (leaving \/ CallsDisconnect(client, roomState))
    /\ UNCHANGED <<seqs, outVars, handlers, restVars>>

\* the hook publishes other connection details (fetched, refreshed, dropped)
ConnectionDetailsChanged ==
    /\ client' = [client EXCEPT !.connectionDetails = ~@, !.effectDue = TRUE]
    /\ UNCHANGED <<seqs, leaving, outVars, handlers, restVars>>

\* the effect of lines 109-164 runs after a render that changed a dependency
PopupEffect ==
    /\ client.effectDue
    /\ \/ /\ ~client.popupOpen
          /\ client' = [client EXCEPT !.effectDue = FALSE]
          /\ UNCHANGED <<seqs, handlers>>
       \/ /\ client.popupOpen /\ ~client.connectionDetails
          /\ client' = [client EXCEPT !.effectDue = FALSE, !.error = "connectionDetails"]
          /\ UNCHANGED <<seqs, handlers>>
       \/ /\ client.popupOpen /\ client.connectionDetails
          /\ handlers' = rearmGreet(handlers)
          /\ client' = [client EXCEPT !.effectDue = FALSE]
          /\ \/ /\ roomState # "disconnected"
                /\ UNCHANGED seqs
             \/ /\ roomState = "disconnected"
                /\ \E id \in SeqIds :
                      /\ seqs[id].pc = "none"
                      /\ \A other \in SeqIds : other < id => seqs[other].pc # "none"
                      /\ seqs' = [seqs EXCEPT ![id] = SeqStarted(roomState, client)]
    /\ UNCHANGED <<leaving, outVars, restVars>>

\* setMicrophoneEnabled resolves
MicrophoneEnabled ==
    /\ \E id \in SeqIds :
          /\ seqs[id].pc # "none" /\ seqs[id].mic = "pending"
          /\ seqs' = [seqs EXCEPT ![id] = Settled([seqs[id] EXCEPT !.mic = "ok"])]
    /\ UNCHANGED <<client, leaving, outVars, handlers, restVars>>

\* setMicrophoneEnabled rejects: the room emits MediaDevicesError (lines 95-100),
\* then the rejection reaches the catch block if Promise.all was still pending
MicrophoneFailed ==
    /\ \E id \in SeqIds :
          /\ seqs[id].pc # "none" /\ seqs[id].mic = "pending"
          /\ seqs' = [seqs EXCEPT ![id] = Settled([seqs[id] EXCEPT !.mic = "failed"])]
    /\ client' = AfterCatch([client EXCEPT !.error = "mediaDevices"], seqs, seqs')
    /\ UNCHANGED <<leaving, outVars, handlers, restVars>>

\* existingOrRefreshConnectionDetails resolves and room.connect is called; it
\* waits for a disconnect in progress, resolves at once on a connected room and
\* joins a connect that is pending
ConnectCalled ==
    /\ ~leaving
    /\ \E id \in SeqIds :
          /\ seqs[id].pc # "none" /\ seqs[id].link = "fetching"
          /\ seqs' = [seqs EXCEPT ![id] =
                        IF roomState = "connected"
                        THEN Settled([seqs[id] EXCEPT !.link = "ok"])
                        ELSE [seqs[id] EXCEPT !.link = "connecting"]]
    /\ roomState' = (IF roomState = "disconnected" THEN "connecting" ELSE roomState)
    /\ UNCHANGED <<client, leaving, remoteParticipants, sd, rc, handlers, dom, inbound,
                   regLog, calls>>

\* existingOrRefreshConnectionDetails rejects
ConnectionDetailsFailed ==
    /\ \E id \in SeqIds :
          /\ seqs[id].pc # "none" /\ seqs[id].link = "fetching"
          /\ seqs' = [seqs EXCEPT ![id] = Settled([seqs[id] EXCEPT !.link = "failed"])]
    /\ client' = AfterCatch(client, seqs, seqs')
    /\ UNCHANGED <<leaving, outVars, handlers, restVars>>

\* the room's connect succeeds
ClientRoomConnected ==
    /\ roomState = "connecting"
    /\ roomState' = "connected"
    /\ seqs' = ConnectSettled(seqs, "ok")
    /\ UNCHANGED <<client, leaving, remoteParticipants, sd, rc, handlers, dom, inbound,
                   regLog, calls>>

\* the room becomes disconnected: a failed connect, the server's side, or the
\* completion of room.disconnect(). A connected room emits Disconnected; for a
\* connect that failed the event may or may not be emitted.
ClientRoomDisconnected ==
    /\ roomState # "disconnected"
    /\ roomState' = "disconnected"
    /\ remoteParticipants' = <<>>
    /\ leaving' = FALSE
    /\ seqs' = ConnectSettled(seqs, "failed")
    /\ \E emitted \in (IF roomState = "connected" THEN {TRUE} ELSE BOOLEAN) :
          client' = AfterCatch(IF emitted THEN onDisconnected(client) ELSE client,
                               seqs, seqs')
    /\ UNCHANGED <<sd, rc, handlers, dom, inbound, regLog, calls>>

\* the 500 ms of line 144 are over: connect() calls sendData(room)
ConnectSendData ==
    /\ sd.pc \in {"idle", "ended"}
    /\ sd.call < MaxCalls
    /\ \E id \in SeqIds :
          /\ seqs[id].pc = "delay"
          /\ seqs' = [seqs EXCEPT ![id].pc = "sendData"]
    /\ sd' = sendData([SdIdle EXCEPT !.call = sd.call + 1,
                                     !.agentSeen = (findAgent(remoteParticipants) # Null)],
                      roomState, remoteParticipants)
    /\ UNCHANGED <<client, leaving, roomState, remoteParticipants, handlers, restVars>>

----------------------------------------------------------------------------
(* Specifications *)

Init ==
    /\ roomState = "disconnected"
    /\ remoteParticipants = <<>>
    /\ sd = SdIdle
    /\ rc = RcIdle
    /\ handlers = [m \in RegistryNames |-> "none"]
    /\ dom = <<>>
    /\ inbound = [pc |-> "none"]
    /\ regLog = <<>>
    /\ calls = [id \in RequestIds |-> NotInFlight]
    /\ client = ClientMounted
    /\ seqs = [id \in SeqIds |-> NoSeq]
    /\ leaving = FALSE

Next ==
    \/ SendDataCall
    \/ SendDataTimer
    \/ SendDataRpcResolved
    \/ SendDataRpcRejected
    \/ SendDomElementsCall
    \/ CallAgentActionCall
    \/ RpcClientResolved
    \/ RpcClientRejected
    \/ RoomConnecting
    \/ RoomConnected
    \/ RoomReconnecting
    \/ RoomDisconnected
    \/ ParticipantJoined
    \/ ParticipantLeft

Spec == Init /\ [][Next]_vars

NextInbound ==
    \/ RegisterClientRpcHandlers
    \/ UnregisterClientRpcHandlers
    \/ RearmGreet
    \/ DomChanged
    \/ InboundCall

SpecInbound == Init /\ [][NextInbound]_vars

NextRegistry ==
    \/ RegisterLogged
    \/ UnregisterLogged
    \/ RearmLogged
    \/ OtherRegistered

SpecRegistry == Init /\ [][NextRegistry]_vars

NextPopup ==
    \/ TogglePopup
    \/ PanelAnimationComplete
    \/ ConnectionDetailsChanged
    \/ PopupEffect
    \/ MicrophoneEnabled
    \/ MicrophoneFailed
    \/ ConnectCalled
    \/ ConnectionDetailsFailed
    \/ ClientRoomConnected
    \/ ClientRoomDisconnected
    \/ ConnectSendData
    \/ SendDataTimer

SpecPopup == Init /\ [][NextPopup]_vars

NextConcurrent ==
    \/ RegisterClientRpcHandlers
    \/ RearmGreet
    \/ DomChanged
    \/ InboundInvoked
    \/ InboundAnswered

SpecConcurrent == Init /\ [][NextConcurrent]_vars

\* timers fire and performRpc settles (by a response, an error or its own timeout)
FairSpec ==
    /\ Spec
    /\ WF_vars(SendDataTimer)
    /\ WF_vars(SendDataRpcResolved \/ SendDataRpcRejected)

----------------------------------------------------------------------------
(* The outbound call with retry *)

\* the states of one sendData call, in the words of the call's state machine
SdWaiting == sd.pc = "WAITING"
SdSending == sd.pc = "SENDING"
SdTerminal == sd.pc = "ended"
SdFailed == sd.pc = "ended" /\ sd.via \in {"agentNotFound", "transportError"}

\* C1: with no agent peer ever in the roster (and the room connected), one sendData
\* call makes exactly 4 resolution attempts (1 initial + 3 retries) and then fails
\* with agent-not-found: never a 5th attempt, no failure before the 4th.
C1_FourAttemptsThenAgentNotFound ==
    (sd.pc # "idle" /\ ~sd.agentSeen /\ sd.via # "notConnected") =>
        /\ sd.attempts <= maxRetries + 1
        /\ (sd.attempts = maxRetries + 1 => sd.pc = "ended" /\ sd.via = "agentNotFound")
        /\ (sd.via = "agentNotFound" => sd.attempts = maxRetries + 1)

\* C2: every sendData call that has started eventually reaches a terminal state,
\* whatever the roster and the transport do.
C2_CallEventuallyTerminal ==
    (SdWaiting \/ SdSending) ~> SdTerminal

\* C3: the delay waited before retry number k (k = 1, 2, 3) is retryDelay * k.
C3_DelayIsBaseTimesRetryNumber ==
    (SdWaiting /\ sd.attempts \in 1..maxRetries) => sd.delay = retryDelay * sd.attempts

\* C4: when resolution attempt 1 found no agent and an agent is in the roster at
\* attempt 2, attempt 2 sends to that agent (the first agent of the roster as it is
\* then), and a call that is sending makes no further resolution attempt or wait.
C4_SecondAttemptReadsRosterAgain ==
    /\ [][(SdWaiting /\ sd.attempts = 1 /\ sd'.attempts = 2
            /\ findAgent(remoteParticipants) # Null)
          => /\ sd'.pc = "SENDING"
             /\ sd'.dest = findAgent(remoteParticipants).identity
             /\ sd'.rpcs = 1]_vars
    /\ [][(SdSending /\ sd'.call = sd.call)
          => /\ sd'.pc \in {"SENDING", "ended"}
             /\ sd'.attempts = sd.attempts
             /\ sd'.rpcs = sd.rpcs]_vars

C4_Witness ==
    /\ sd.pc = "ended" /\ sd.via = "response"
    /\ sd.attempts = 2 /\ sd.rpcs = 1 /\ sd.dest = "agent-2"

\* C5: a transport failure is never retried: one call issues performRpc at most
\* once, and from SENDING a call only ends; after a transport error it stays ended,
\* with no new resolution attempt, wait or send.
C5_TransportFailureNotRetried ==
    /\ [](sd.rpcs <= 1 /\ rc.rpcs <= 1)
    /\ [][((SdSending \/ sd.via = "transportError") /\ sd'.call = sd.call)
          => /\ sd'.pc \in {"SENDING", "ended"}
             /\ (sd'.pc = "ended" /\ sd.pc = "ended" => sd' = sd)
             /\ sd'.attempts = sd.attempts
             /\ sd'.rpcs = sd.rpcs]_vars
    /\ [][(rc.pc = "SENDING" \/ rc.via = "transportError")
          => \/ rc' = rc
             \/ rc.pc = "SENDING" /\ rc'.pc = "ended" /\ rc'.rpcs = rc.rpcs
             \/ rc.pc = "ended" /\ rc'.via # "transportError"
             \/ rc.pc = "ended" /\ rc'.pc = "SENDING" /\ rc'.rpcs = 1]_vars

C5_Witness ==
    /\ sd.pc = "ended" /\ sd.via = "transportError" /\ sd.rpcs = 1
    /\ rc.pc = "ended" /\ rc.via = "transportError" /\ rc.rpcs = 1

\* C6: every outbound failure (agent not found after the retries, a transport error
\* after the send) is raised to the caller: the call does not complete normally.
C6_FailuresAreRaised ==
    /\ SdFailed => sd.outcome = "threw"
    /\ (rc.pc = "ended" /\ rc.via \in {"agentNotFound", "transportError"})
          => rc.outcome = "threw"

----------------------------------------------------------------------------
(* The inbound handlers' replies *)

Called == inbound.pc # "none"
ClickButtonCalled == Called /\ inbound.handler = "clickButton"

ReplyEvents == {i \in 1..Len(inbound.events) : inbound.events[i].e = "reply"}

MissingJsIdReply == ReplyEvent("{\"ok\":false,\"error\":\"Missing jsId\"}")
ElementNotFoundReply == ReplyEvent("{\"ok\":false,\"error\":\"Element not found\"}")
OkReply == ReplyEvent("{\"ok\":true}")

\* the jsId the payload carries: the jsId member of the object it parses to
\* (undefined when the payload parses to no object, or to one without the member)
PayloadJsId(data) ==
    LET parsed == JSONparse(data.text)
    IN  IF ~data.present \/ parsed.threw THEN JsUndefined
        ELSE IF parsed.v.k = "obj" THEN LookupMember(parsed.v.f, JsIdKey)
        ELSE JsUndefined

\* the payload is well-formed (or absent) and carries no jsId, or a falsy one
HasNoJsId(data) ==
    /\ ~data.present \/ ~JSONparse(data.text).threw
    /\ ~Truthy(PayloadJsId(data))

HasJsId(data) == Truthy(PayloadJsId(data))

\* the elements whose identifier is the payload's jsId
MatchingElements(data, d) ==
    {i \in 1..Len(d) : d[i].jsId = ToText(PayloadJsId(data))}

\* C7: every invocation of a bound handler ends in exactly one reply, the last thing
\* the handler does, and no exception leaves the handler; when the handler's body
\* raised, the reply is the failure envelope carrying the error's message.
C7_OneReplyNoEscape ==
    Called =>
        /\ inbound.pc = "replied"
        /\ ReplyEvents = {Len(inbound.events)}
        /\ inbound.raised =>
              inbound.events =
                  <<ReplyEvent("{\"ok\":false,\"error\":\"" \o inbound.message \o "\"}")>>

C7_Witness ==
    /\ ClickButtonCalled /\ inbound.pc = "replied" /\ inbound.raised
    /\ inbound.data.text = <<"n", "u", "l", "l">>

\* C8: for every client.click_button payload without a jsId (absent, an empty object,
\* a falsy jsId, JSON that is no object such as null or a number) the reply is exactly
\* {ok:false, error:"Missing jsId"} and nothing is clicked.
C8_MissingJsId ==
    (ClickButtonCalled /\ HasNoJsId(inbound.data)) =>
        inbound.pc = "replied" /\ inbound.events = <<MissingJsIdReply>>

\* C9: for every client.click_button payload whose jsId is the identifier of no
\* element, the reply is exactly {ok:false, error:"Element not found"} and nothing
\* is clicked.
C9_ElementNotFound ==
    (ClickButtonCalled /\ HasJsId(inbound.data)
       /\ MatchingElements(inbound.data, inbound.dom) = {}) =>
        inbound.pc = "replied" /\ inbound.events = <<ElementNotFoundReply>>

\* C10: for every client.click_button payload whose jsId is the identifier of some
\* element, exactly one element is clicked, one with that identifier, and then the
\* reply {ok:true} is given.
C10_MatchingElementClicked ==
    (ClickButtonCalled /\ HasJsId(inbound.data)
       /\ MatchingElements(inbound.data, inbound.dom) # {}) =>
        /\ inbound.pc = "replied"
        /\ Len(inbound.events) = 2
        /\ inbound.events[1].e = "click"
        /\ inbound.events[1].idx \in MatchingElements(inbound.data, inbound.dom)
        /\ inbound.events[2] = OkReply

----------------------------------------------------------------------------
(* The registry of inbound handlers *)

LastOp == regLog[Len(regLog)]

\* the binding a name has if every register replaces and every unregister removes
RECURSIVE LastWrite(_, _)
LastWrite(log, name) ==
    IF log = <<>> THEN "none"
    ELSE CASE log[Len(log)].op = "registerClientRpcHandlers" /\ name = "client.click_button"
                -> "clickButton"
           [] log[Len(log)].op = "registerClientRpcHandlers" /\ name = "client.greet"
                -> "greetBridge"
           [] log[Len(log)].op = "unregisterClientRpcHandlers" /\ name \in Methods
                -> "none"
           [] log[Len(log)].op = "rearmGreet" /\ name = "client.greet"
                -> "greetPopup"
           [] log[Len(log)].op = "other" /\ name = OtherMethod
                -> "appHandler"
           [] OTHER -> LastWrite(SubSeq(log, 1, Len(log) - 1), name)

\* C11: after any sequence of register and unregister operations each method
\* name is bound to the handler of its most recent register (to nothing if it
\* was unregistered since), and no register raised an error
C11_LastRegisterWins ==
    /\ \A name \in RegistryNames : handlers[name] = LastWrite(regLog, name)
    /\ \A i \in 1..Len(regLog) : ~regLog[i].threw

\* C12: after unregisterClientRpcHandlers neither client.greet nor
\* client.click_button is bound and no error was raised; the call changes the
\* binding of no other name, and with neither name bound it changes nothing
C12_UnregisterIdempotent ==
    /\ [](regLog # <<>> /\ LastOp.op = "unregisterClientRpcHandlers"
            => /\ handlers["client.greet"] = "none"
               /\ handlers["client.click_button"] = "none"
               /\ ~LastOp.threw)
    /\ [][regLog' = Append(regLog, LogEntry("unregisterClientRpcHandlers", FALSE))
            => /\ handlers'[OtherMethod] = handlers[OtherMethod]
               /\ (handlers["client.greet"] = "none" /\ handlers["client.click_button"] = "none"
                      => handlers' = handlers)]_vars

\* unregisterClientRpcHandlers was called twice in a row, after both names and
\* the page's own method had been bound
C12_Witness ==
    /\ Len(regLog) = 4
    /\ regLog[1].op = "other"
    /\ regLog[2].op = "registerClientRpcHandlers"
    /\ regLog[3].op = "unregisterClientRpcHandlers"
    /\ regLog[4].op = "unregisterClientRpcHandlers"
    /\ handlers[OtherMethod] = "appHandler"

----------------------------------------------------------------------------
(* Inbound invocations in flight at the same time *)

InFlight(id) == calls[id].stage # "free"

\* the reply of an invocation by its own handler, payload, caller and document
OwnReply(inv) ==
    CASE inv.handler = "greetBridge"
           -> <<ReplyEvent("Hello " \o inv.data.callerIdentity \o "!")>>
      [] inv.handler = "greetPopup"
           -> <<ReplyEvent("Hello, " \o inv.data.callerIdentity \o "!")>>
      [] inv.handler = "clickButton"
           -> clickButton(inv.data, inv.dom).events

\* C13: with two invocations in flight at the same time, each gets the reply its
\* own handler computes from its own payload and caller identity, and no step
\* of the other invocation (its delivery, its answer) changes it
C13_NoCrossTalk ==
    /\ [](\A id \in RequestIds :
            InFlight(id) => /\ calls[id].inv.pc = "replied"
                            /\ calls[id].inv.events = OwnReply(calls[id].inv))
    /\ [][\A id \in RequestIds :
            InFlight(id) => InFlight(id)' /\ calls'[id].inv = calls[id].inv]_vars

\* client.click_button of agent-1 and client.greet of agent-2 were in flight
\* together; the later one was answered first
C13_Witness ==
    /\ calls[1].stage = "running" /\ calls[2].stage = "answered"
    /\ calls[1].inv.method = "client.click_button"
    /\ calls[2].inv.method = "client.greet"
    /\ calls[1].inv.data.callerIdentity = "agent-1"
    /\ calls[2].inv.data.callerIdentity = "agent-2"
    /\ calls[1].inv.events = <<ClickEvent(1), OkReply>>

----------------------------------------------------------------------------
(* Peer resolution *)

\* position i of the roster holds an agent and no earlier position does
IsFirstAgent(roster, i) ==
    /\ roster[i].isAgent
    /\ \A j \in 1..(i - 1) : ~roster[j].isAgent

NoAgentIn(roster) == \A i \in 1..Len(roster) : ~roster[i].isAgent

\* findAgent over the roster of the moment
FoundAgent == findAgent(remoteParticipants)

\* a step in which sendDomElements or callAgentAction is called
RcCalled == rc.pc \in {"idle", "ended"} /\ rc' # rc

\* a step in which sendData resolves the agent and sends
SdResolvedAgent == sd.pc \in {"idle", "ended", "WAITING"} /\ sd'.pc = "SENDING"

\* C14: findAgent returns the first peer of the roster, in join order, whose
\* isAgent is true, and null when there is none; the resolution leaves the
\* roster and the room state as they are, and it is one look at the roster:
\* the call sends or fails in the same step, without waiting
C14_FindAgentFirstInJoinOrder ==
    /\ []((FoundAgent = Null <=> NoAgentIn(remoteParticipants))
          /\ \A i \in 1..Len(remoteParticipants) :
                IsFirstAgent(remoteParticipants, i) => FoundAgent = remoteParticipants[i])
    /\ [][RcCalled =>
            /\ remoteParticipants' = remoteParticipants
            /\ roomState' = roomState
            /\ rc'.pc \in {"SENDING", "ended"}
            /\ (NoAgentIn(remoteParticipants)
                  => rc'.pc = "ended" /\ rc'.via = "agentNotFound" /\ rc'.rpcs = 0)
            /\ \A i \in 1..Len(remoteParticipants) :
                  IsFirstAgent(remoteParticipants, i)
                    => rc'.pc = "SENDING" /\ rc'.dest = remoteParticipants[i].identity]_vars
    /\ [][SdResolvedAgent =>
            /\ remoteParticipants' = remoteParticipants
            /\ roomState' = roomState
            /\ \E i \in 1..Len(remoteParticipants) :
                  /\ IsFirstAgent(remoteParticipants, i)
                  /\ sd'.dest = remoteParticipants[i].identity]_vars

\* [user-1 (no agent), agent-1 (agent)]: the call went to agent-1
C14_Witness ==
    /\ remoteParticipants = << [identity |-> "user-1", isAgent |-> FALSE],
                               [identity |-> "agent-1", isAgent |-> TRUE] >>
    /\ rc.pc = "SENDING"
    /\ rc.dest = "agent-1"
    /\ FoundAgent = remoteParticipants[2]

----------------------------------------------------------------------------
(* The retry loop and the room's state *)

----------------------------------------------------------------------------
(* What sendData sends, and when *)

\* a step in which sendData issues performRpc
SdSent == sd.pc # "SENDING" /\ sd'.pc = "SENDING"

\* C17: sendData issues performRpc only in a step in which room.state is
\* 'connected' and the roster holds an agent, and the destination is the
\* identity of a peer that is in the roster with isAgent true in that step;
\* entered with the room not connected (by a call or after a backoff wait) it
\* returns without resolving, waiting or sending
C17_SendsOnlyToRosterAgentWhenConnected ==
    /\ [][SdSent =>
            /\ roomState = "connected" /\ roomState' = "connected"
            /\ remoteParticipants' = remoteParticipants
            /\ \E i \in 1..Len(remoteParticipants) :
                  /\ remoteParticipants[i].isAgent
                  /\ remoteParticipants[i].identity = sd'.dest]_vars
    /\ [][sd'.rpcs # sd.rpcs /\ sd'.rpcs # 0 => SdSent]_vars
    /\ [][(sd.pc \in {"idle", "ended", "WAITING"} /\ sd' # sd /\ roomState # "connected")
            => /\ sd'.pc = "ended"
               /\ sd'.via = "notConnected"
               /\ sd'.attempts = (IF sd.pc = "WAITING" THEN sd.attempts ELSE 0)
               /\ sd'.rpcs = (IF sd.pc = "WAITING" THEN sd.rpcs ELSE 0)]_vars

\* after one wait the roster was [user-1, agent-2] and the call went to agent-2
C17_Witness ==
    /\ sd.pc = "SENDING"
    /\ sd.attempts = 2
    /\ sd.dest = "agent-2"
    /\ roomState = "connected"
    /\ remoteParticipants = << [identity |-> "user-1", isAgent |-> FALSE],
                               [identity |-> "agent-2", isAgent |-> TRUE] >>

----------------------------------------------------------------------------
(* The popup and the room *)

\* a step that opens the popup
PopupOpened == ~client.popupOpen /\ client'.popupOpen

\* C16: the popup is not re-opened before the room has disconnected: no step
\* takes popupOpen from false to true while room.state is not 'disconnected',
\* whatever the order of clicks, animation callbacks and the completion of
\* room.disconnect()
C16_NoReopenBeforeDisconnected ==
    [][PopupOpened => roomState = "disconnected"]_vars

Started(id) == seqs[id].pc # "none"

====
